---- MODULE Spec2Model ----
(***************************************************************************)
(* Chudnovsky binary splitting with nested fork-join parallelism           *)
(* (raspberry-pi2-openmp.c): the recursive evaluator bs, the OpenMP        *)
(* regions it opens, and the driver main with its finalization.            *)
(*                                                                         *)
(* A call of bs of width < Threshold opens no region and calls only such   *)
(* calls: it is one step of the thread that runs it, its result taken from *)
(* the operator bs.  A call of width >= Threshold is followed statement by *)
(* statement, each branch of a region being a step of its own thread.      *)
(*                                                                         *)
(* GMP integers are unbounded.  The model keeps of every mpz_t its residue *)
(* modulo Modulus: set, add, neg and mul commute with taking residues, so  *)
(* every equality between mpz values of the program is an equality of the  *)
(* residues, and a difference of residues is a difference of the values.   *)
(***************************************************************************)
EXTENDS Integers, Sequences, FiniteSets, TLC

\* ------------------------------------------------------------ constants
A == 13591409
B == 545140134
C == 640320
D == 12

\* The width below which a call never opens a parallel region (b-a < 1000).
Threshold == 1000

\* ------------------------------------------------------------- bounds
\* Residues of the mpz values are taken modulo Modulus (Modulus^2 < 2^31).
Modulus == 46337

\* Term counts 0..MaxSmallTerms, Threshold-1, and Threshold + k*WideStride for
\* k in 0..MaxWideSteps (one, two and three calls wide enough to fork).
MaxSmallTerms == 6

WideStride == 480

MaxWideSteps == 3

\* Task budgets -NegThreads..MaxThreads.
NegThreads == 2

MaxThreads == 6

\* Ranges [a, b) inside [0, n) with n <= MaxN for the checks of bs as a function.
MaxN == 12

\* ---------------------------------------------------------- mpz backend
mpz_set_ui(x) == x % Modulus

mpz_mul(x, y) == ((x % Modulus) * (y % Modulus)) % Modulus

mpz_add(x, y) == ((x % Modulus) + (y % Modulus)) % Modulus

mpz_neg(x) == (Modulus - (x % Modulus)) % Modulus

\* mpz_init sets the integer to 0.
mpz_init == 0

\* ------------------------------------------------- bs: the leaf cases
\* Width1 with the sign test inverted (Q negated for even b).
Width1SignFlipped(b) ==
    LET p1 == mpz_mul(mpz_mul(mpz_mul(mpz_mul(mpz_set_ui(b), b), b),
                              (C \div 24) * (C \div 24)), C * 24)
        g1 == mpz_mul(mpz_mul(mpz_set_ui(2 * b - 1), 6 * b - 1), 6 * b - 5)
        q0 == mpz_mul(mpz_add(mpz_mul(mpz_set_ui(b), B), A), g1)
        q1 == IF b % 2 = 0 THEN mpz_neg(q0) ELSE q0
    IN  [p |-> p1, q |-> q1, g |-> g1]

\* b-a == 1: the triple of the single term b, written to the output slots.
Width1(b) ==
    LET p1 == mpz_mul(mpz_mul(mpz_mul(mpz_mul(mpz_set_ui(b), b), b),
                              (C \div 24) * (C \div 24)), C * 24)
        g1 == mpz_mul(mpz_mul(mpz_set_ui(2 * b - 1), 6 * b - 1), 6 * b - 5)
        q0 == mpz_mul(mpz_add(mpz_mul(mpz_set_ui(b), B), A), g1)
        q1 == IF b % 2 = 1 THEN mpz_neg(q0) ELSE q0
    IN  [p |-> p1, q |-> q1, g |-> g1]

\* Unrolled1 with the sign of term b-1 taken from the parity of b.
Unrolled1ParityOfB(b) ==
    LET p1 == mpz_mul(mpz_mul(mpz_mul(mpz_mul(mpz_set_ui(b - 1), b - 1), b - 1),
                              (C \div 24) * (C \div 24)), C * 24)
        g1 == mpz_mul(mpz_mul(mpz_set_ui(2 * (b - 1) - 1), 6 * (b - 1) - 1),
                      6 * (b - 1) - 5)
        q0 == mpz_mul(mpz_add(mpz_mul(mpz_set_ui(b - 1), B), A), g1)
        q1 == IF b % 2 = 1 THEN mpz_neg(q0) ELSE q0
    IN  [p |-> p1, q |-> q1, g |-> g1]

\* b-a == 2, first half: term b-1 written to the output slots.
Unrolled1(b) ==
    LET p1 == mpz_mul(mpz_mul(mpz_mul(mpz_mul(mpz_set_ui(b - 1), b - 1), b - 1),
                              (C \div 24) * (C \div 24)), C * 24)
        g1 == mpz_mul(mpz_mul(mpz_set_ui(2 * (b - 1) - 1), 6 * (b - 1) - 1),
                      6 * (b - 1) - 5)
        q0 == mpz_mul(mpz_add(mpz_mul(mpz_set_ui(b - 1), B), A), g1)
        q1 == IF (b - 1) % 2 = 1 THEN mpz_neg(q0) ELSE q0
    IN  [p |-> p1, q |-> q1, g |-> g1]

\* b-a == 2, second half: term b written to the scratch integers.
Unrolled2(b) ==
    LET p2 == mpz_mul(mpz_mul(mpz_mul(mpz_mul(mpz_set_ui(b), b), b),
                              (C \div 24) * (C \div 24)), C * 24)
        g2 == mpz_mul(mpz_mul(mpz_set_ui(2 * b - 1), 6 * b - 1), 6 * b - 5)
        q0 == mpz_mul(mpz_add(mpz_mul(mpz_set_ui(b), B), A), g2)
        q2 == IF b % 2 = 1 THEN mpz_neg(q0) ELSE q0
    IN  [p |-> p2, q |-> q2, g |-> g2]

\* ------------------------------------------- exact integers and floats
\* A natural number in full: its decimal digits, the lowest first, with no
\* leading zero (0 is the empty sequence).
RECURSIVE BigOfNat(_)
BigOfNat(n) == IF n = 0 THEN << >> ELSE <<n % 10>> \o BigOfNat(n \div 10)

RECURSIVE BigNorm(_)
BigNorm(x) ==
    IF x = << >> THEN x
    ELSE IF x[Len(x)] = 0 THEN BigNorm(SubSeq(x, 1, Len(x) - 1))
    ELSE x

BigDigit(x, i) == IF i <= Len(x) THEN x[i] ELSE 0

\* x * 10^k for k >= 0, and x with its k lowest digits dropped.
BigShift(x, k) == IF x = << >> THEN x ELSE [i \in 1..k |-> 0] \o x

BigDrop(x, k) == IF k >= Len(x) THEN << >> ELSE SubSeq(x, k + 1, Len(x))

RECURSIVE BigAddFrom(_, _, _, _)
BigAddFrom(x, y, i, c) ==
    IF i > Len(x) /\ i > Len(y)
    THEN BigOfNat(c)
    ELSE LET s == BigDigit(x, i) + BigDigit(y, i) + c
         IN  <<s % 10>> \o BigAddFrom(x, y, i + 1, s \div 10)

BigAdd(x, y) == BigAddFrom(x, y, 1, 0)

\* x - y for x >= y.
RECURSIVE BigSubFrom(_, _, _, _)
BigSubFrom(x, y, i, c) ==
    IF i > Len(x) THEN << >>
    ELSE LET s == BigDigit(x, i) - BigDigit(y, i) - c
         IN  IF s < 0 THEN <<s + 10>> \o BigSubFrom(x, y, i + 1, 1)
             ELSE <<s>> \o BigSubFrom(x, y, i + 1, 0)

BigSub(x, y) == BigNorm(BigSubFrom(x, y, 1, 0))

\* x * k for one digit k.
RECURSIVE BigMulDigitFrom(_, _, _, _)
BigMulDigitFrom(x, k, i, c) ==
    IF i > Len(x) THEN BigOfNat(c)
    ELSE LET s == x[i] * k + c
         IN  <<s % 10>> \o BigMulDigitFrom(x, k, i + 1, s \div 10)

BigMulDigit(x, k) == IF k = 0 THEN << >> ELSE BigMulDigitFrom(x, k, 1, 0)

\* x * y by columns: the k-th column sums the products of the digits of x and
\* y whose places add up to k, and the carries are then passed up.
RECURSIVE BigColumn(_, _, _, _)
BigColumn(x, y, k, i) ==
    IF i > Len(x) \/ i >= k THEN 0
    ELSE x[i] * BigDigit(y, k - i) + BigColumn(x, y, k, i + 1)

RECURSIVE BigCarryFrom(_, _, _, _)
BigCarryFrom(x, y, k, c) ==
    IF k > Len(x) + Len(y) THEN BigOfNat(c)
    ELSE LET s == BigColumn(x, y, k + 1, 1) + c
         IN  <<s % 10>> \o BigCarryFrom(x, y, k + 1, s \div 10)

BigMul(x, y) == BigNorm(BigCarryFrom(x, y, 1, 0))

\* x < y, from the highest digit down.
RECURSIVE BigLessFrom(_, _, _)
BigLessFrom(x, y, i) ==
    IF i = 0 THEN FALSE
    ELSE IF x[i] # y[i] THEN x[i] < y[i]
    ELSE BigLessFrom(x, y, i - 1)

BigLess(x, y) ==
    IF Len(x) # Len(y) THEN Len(x) < Len(y) ELSE BigLessFrom(x, y, Len(x))

BigReverse(x) == [i \in 1..Len(x) |-> x[Len(x) + 1 - i]]

\* The quotient x \div y (y > 0) by long division, its digits from the highest
\* down: r is the remainder left by the digits of x above the i-th.
RECURSIVE BigDivFrom(_, _, _, _)
BigDivFrom(x, y, i, r) ==
    IF i = 0 THEN << >>
    ELSE LET r1 == BigNorm(<<x[i]>> \o r)
             k == CHOOSE j \in 0..9 :
                     /\ ~BigLess(r1, BigMulDigit(y, j))
                     /\ BigLess(r1, BigMulDigit(y, j + 1))
         IN  <<k>> \o BigDivFrom(x, y, i - 1, BigSub(r1, BigMulDigit(y, k)))

BigDiv(x, y) == BigNorm(BigReverse(BigDivFrom(x, y, Len(x), << >>)))

\* The integer square root of x by the pencil-and-paper method, its digits
\* from the highest down: the digits of x are taken two at a time from the
\* highest pair; root is the root of the pairs above the i-th and r what is
\* left of them.
BigRootStep(root, k) == BigMulDigit(BigNorm(<<k>> \o BigMulDigit(root, 2)), k)

RECURSIVE BigSqrtFrom(_, _, _, _)
BigSqrtFrom(x, i, root, r) ==
    IF i = 0 THEN << >>
    ELSE LET r1 == BigNorm(<<BigDigit(x, 2 * i - 1), BigDigit(x, 2 * i)>> \o r)
             k == CHOOSE j \in 0..9 :
                     /\ ~BigLess(r1, BigRootStep(root, j))
                     /\ (j = 9 \/ BigLess(r1, BigRootStep(root, j + 1)))
         IN  <<k>> \o BigSqrtFrom(x, i - 1, BigNorm(<<k>> \o root),
                                  BigSub(r1, BigRootStep(root, k)))

BigSqrt(x) == BigNorm(BigReverse(BigSqrtFrom(x, (Len(x) + 1) \div 2, << >>, << >>)))

\* An integer in full: its sign and its magnitude.
IntOfNat(n) == [neg |-> FALSE, mag |-> BigOfNat(n)]

IntNeg(x) == [neg |-> ~x.neg /\ x.mag # << >>, mag |-> x.mag]

IntMul(x, y) ==
    LET m == BigMul(x.mag, y.mag)
    IN  [neg |-> x.neg # y.neg /\ m # << >>, mag |-> m]

IntAdd(x, y) ==
    IF x.neg = y.neg THEN [neg |-> x.neg, mag |-> BigAdd(x.mag, y.mag)]
    ELSE IF BigLess(x.mag, y.mag) THEN [neg |-> y.neg, mag |-> BigSub(y.mag, x.mag)]
    ELSE LET m == BigSub(x.mag, y.mag) IN [neg |-> x.neg /\ m # << >>, mag |-> m]

\* b-a == 1 in full: the P and Q of the single term b (lines 110-123), as
\* Width1 gives them modulo Modulus.
ExactWidth1(b) ==
    LET p1 == IntMul(IntMul(IntMul(IntMul(IntOfNat(b), IntOfNat(b)), IntOfNat(b)),
                            IntOfNat((C \div 24) * (C \div 24))), IntOfNat(C * 24))
        g1 == IntMul(IntMul(IntOfNat(2 * b - 1), IntOfNat(6 * b - 1)),
                     IntOfNat(6 * b - 5))
        q0 == IntMul(IntAdd(IntMul(IntOfNat(b), IntOfNat(B)), IntOfNat(A)), g1)
        q1 == IF b % 2 = 1 THEN IntNeg(q0) ELSE q0
    IN  [p |-> p1, q |-> q1]

\* Line 298: the precision of the floats in bits, (long)(d*BITS_PER_DIGIT+16),
\* and the decimal digits it stands for, floor(bits*log10(2)).  GMP computes
\* every float result to at least that precision; the floats here keep that
\* many significant decimal digits, the rest truncated, which is not more
\* than GMP keeps.  The integer form of the bits agrees with the double for
\* dd < 643; it is applied to runs of one term, dd < 29.
PrecBits(dd) == (dd * 332193) \div 100000 + 16

FloatDigits(dd) == (PrecBits(dd) * 30103) \div 100000

\* A float: sign, digits m (as for the integers) and exponent e, for the
\* value m * 10^e.  mpf_keep truncates to n significant digits.
NoFloat == [neg |-> FALSE, m |-> << >>, e |-> 0]

mpf_keep(neg, m, e, n) ==
    IF Len(m) > n
    THEN [neg |-> neg, m |-> BigDrop(m, Len(m) - n), e |-> e + (Len(m) - n)]
    ELSE [neg |-> neg, m |-> m, e |-> e]

mpf_set_z(z, n) == mpf_keep(z.neg, z.mag, 0, n)

\* x / y (y # 0): the numerator is scaled to give a quotient of more than n
\* digits.
mpf_div(x, y, n) ==
    LET k0 == n + Len(y.m) - Len(x.m) + 1
        k == IF k0 > 0 THEN k0 ELSE 0
    IN  mpf_keep(x.neg # y.neg, BigDiv(BigShift(x.m, k), y.m), x.e - y.e - k, n)

mpf_sqrt_ui(u, n) == mpf_keep(FALSE, BigSqrt(BigShift(BigOfNat(u), 2 * n)), -n, n)

mpf_mul(x, y, n) == mpf_keep(x.neg # y.neg, BigMul(x.m, y.m), x.e + y.e, n)

\* ------------------------------------------------ bs: split and combine
\* Mid with the ratio held in an integer, where 0.5224 truncates to 0.
MidIntegerRatio(a, b) == a + (b - a) * (5224 \div 10000)

\* mid = a+(b-a)*0.5224, the double truncated to unsigned long.
Mid(a, b) == a + ((b - a) * 5224) \div 10000

\* Tds0 handing the whole budget to the left call.
Tds0Whole(tds) == tds

\* tds0 = tds/2 (C division truncates toward zero), tds1 = tds-tds0.
Tds0(tds) == IF tds >= 0 THEN tds \div 2 ELSE -((-tds) \div 2)

\* Tds1 handing the right call what the left call gets.
Tds1Same(tds) == Tds0(tds)

Tds1(tds) == tds - Tds0(tds)

\* SerialSplit with the budget test off by one (tds < 1).
SerialSplitLax(a, b, tds) == b - a < Threshold \/ tds < 1

\* The split runs its two calls one after the other.
SerialSplit(a, b, tds) == b - a < Threshold \/ tds < 2

\* SerialCombine with the budget test off by one (tds < 2).
SerialCombineLax(a, b, tds) == b - a < Threshold \/ tds < 2

\* The combine runs its three products one after the other.
SerialCombine(a, b, tds) == b - a < Threshold \/ tds < 3

\* GMul with the G product skipped everywhere.
GMulNever(b, terms, g1, g2) == g1

\* if (b < terms) mpz_mul(gstack1,gstack1,gstack2); otherwise gstack1 keeps
\* the G of the left part.
GMul(b, terms, g1, g2) == IF b < terms THEN mpz_mul(g1, g2) ELSE g1

\* Combine with q(m,b) multiplied by g(m,b) instead of g(a,m).
CombineWrongG(b, terms, x, y) ==
    LET p1 == mpz_mul(x.p, y.p)
        q1 == mpz_mul(x.q, y.p)
        q2 == mpz_mul(y.q, y.g)
    IN  [p |-> p1, q |-> mpz_add(q1, q2), g |-> GMul(b, terms, x.g, y.g)]

\* The combine of a call whose products run in program order: x is the content
\* of (pstack1,qstack1,gstack1), y the content of (pstack2,qstack2,gstack2).
Combine(b, terms, x, y) ==
    LET p1 == mpz_mul(x.p, y.p)
        q1 == mpz_mul(x.q, y.p)
        q2 == mpz_mul(y.q, x.g)
    IN  [p |-> p1, q |-> mpz_add(q1, q2), g |-> GMul(b, terms, x.g, y.g)]

\* bs(a,b,..) for a call that opens no parallel region anywhere below it
\* (b-a < 1000, or tds < 2): the content of its output slots at its return.
\* The budget of such a call only decides "serial", so it is not a parameter.
RECURSIVE bs(_, _, _)
bs(a, b, terms) ==
    IF b - a = 1 THEN Width1(b)
    ELSE IF b - a = 2 THEN Combine(b, terms, Unrolled1(b), Unrolled2(b))
    ELSE Combine(b, terms, bs(a, Mid(a, b), terms), bs(Mid(a, b), b, terms))

\* The number of invocations of bs that the call bs(a,b,..) makes, itself included.
RECURSIVE BsCalls(_, _)
BsCalls(a, b) ==
    IF b - a <= 2 THEN 1
    ELSE 1 + BsCalls(a, Mid(a, b)) + BsCalls(Mid(a, b), b)

\* The ranges [a, b) of the invocations of bs that the call bs(a,b,..) makes,
\* itself included (lines 181-182, 190-192).  A call whose mid is not
\* strictly inside its range never returns (one of its two calls is of the
\* same range or of no width the code ends the recursion at): its two calls
\* are listed, the calls below them are not.
RECURSIVE BsRanges(_, _)
BsRanges(a, b) ==
    IF b - a <= 2 THEN {<<a, b>>}
    ELSE LET m == Mid(a, b) IN
         {<<a, b>>} \cup (IF a < m /\ m < b
                          THEN BsRanges(a, m) \cup BsRanges(m, b)
                          ELSE {<<a, m>>, <<m, b>>})

\* The ranges whose G the call bs(a,b,..) and the calls below it read after
\* that range has been evaluated: gstack1 of the left part in q(m,b)*g(a,m)
\* (lines 200/211), and gstack1, gstack2 of both parts in the G product when
\* b < terms (line 220).
RECURSIVE GReads(_, _, _)
GReads(a, b, terms) ==
    IF b - a = 1 THEN {}
    ELSE LET m == IF b - a = 2 THEN b - 1 ELSE Mid(a, b)
             below == IF b - a = 2 THEN {}
                      ELSE GReads(a, m, terms) \cup GReads(m, b, terms)
         IN  below \cup {<<a, m>>} \cup (IF b < terms THEN {<<m, b>>} ELSE {})

\* ------------------------------------------------ the OpenMP regions
\* The branch thread i of a team of j threads executes in the 2-way region
\* (if (i==0) .. else if (i==1 || j < 2) ..), -1 for none.
SplitBranch(i, j) == IF i = 0 THEN 0 ELSE IF i = 1 \/ j < 2 THEN 1 ELSE -1

\* The same for the 3-way region of the combine.
CombineBranch(i, j) ==
    IF i = 0 THEN 0
    ELSE IF i = 1 \/ j < 3 THEN 1
    ELSE IF i = 2 \/ j < 3 THEN 2 ELSE -1

\* The team a region asking for n threads may be given by the runtime.
TeamSizes(n) == 1..n

\* The status of the n branches of a region entered by a team of j threads.
SplitStatus(j) ==
    [k \in 0..1 |-> IF \E i \in 0..(j - 1) : SplitBranch(i, j) = k
                    THEN "todo" ELSE "skip"]

CombineStatus(j) ==
    [k \in 0..2 |-> IF \E i \in 0..(j - 1) : CombineBranch(i, j) = k
                    THEN "todo" ELSE "skip"]

\* Outside a region the branches run in program order.
SerialStatus(n) == [k \in 0..(n - 1) |-> "todo"]

\* Joined without the barrier: the thread of the first branch goes on alone.
JoinedFirst(st) == st[0] \in {"done", "skip"}

\* Joined waiting for every branch, also one that no thread of the team executes.
JoinedAll(st) == \A k \in DOMAIN st : st[k] = "done"

\* The end of a region (its implicit barrier), or of the serial statements:
\* every branch that some thread executes has been executed.
Joined(st) == \A k \in DOMAIN st : st[k] \in {"done", "skip"}

\* Branch k may be executed now: by its own thread in a region, after the
\* branches before it outside one.
CanRun(st, par, k) ==
    /\ st[k] = "todo"
    /\ par \/ \A i \in DOMAIN st : i < k => st[i] = "done"

\* ------------------------------------------------------ the integers
Fields == {"p", "q", "g"}

\* Integers are named by the triple they belong to and their place in it.  The
\* triple of main is Root; the triple (pstack2,qstack2,gstack2) of the call at
\* path pi of the call tree is Scratch(pi).
Root == << >>

Scratch(pi) == Append(pi, 1)

Objs(slot) == {<<slot, f>> : f \in Fields}

Zero == [p |-> mpz_init, q |-> mpz_init, g |-> mpz_init]

\* mpz_clear of the integers X, counted in g.
Clear(g, X) ==
    [o \in DOMAIN g \cup X |->
        (IF o \in DOMAIN g THEN g[o] ELSE 0) + (IF o \in X THEN 1 ELSE 0)]

\* The scratch integers a call of bs on [a, b) at path pi initialises (lines
\* 129-131) and clears (lines 216, 218, 221): none for a call of width 1,
\* which returns at line 125.
ScratchOf(pi, a, b) == IF b - a = 1 THEN {} ELSE Objs(Scratch(pi))

\* ClearedEarly with gstack2 cleared along with pstack2 and qstack2.
ClearedEarlyAll(s) == Objs(s)

\* The scratch integers cleared before the G product: pstack2 (line 216) and
\* qstack2 (line 218); gstack2 is cleared after it (line 221).
ClearedEarly(s) == {<<s, "p">>, <<s, "q">>}

VARIABLES
    d,        \* main: the digits asked for
    threads,  \* main: the task budget (argv[3])
    terms,    \* the global term count
    mpc,      \* main: where it is
    top,      \* the invocations of bs main has made
    call,     \* the calls of bs of width >= Threshold in progress, by path
    mem,      \* the value of every integer, by triple
    live,     \* the integers that are initialised and not cleared
    ret,      \* the triples the calls of width < Threshold return (and the
              \* triple of the serial bs(0,terms)), tabulated from bs
    regions,  \* how many parallel regions have been entered
    short,    \* some region was given fewer threads than it asked for
    fin,      \* the finalization: its region and the floats
    gone,     \* how many times each integer has been cleared
    big,      \* pstack and qstack of main in full, in a run of one term
    calc,     \* the results in full of the operations such a run applies,
              \* by operand, tabulated from the operators
    fn        \* bs applied as a function to one range (FnSpec)

vars == <<d, threads, terms, mpc, top, call, mem, live, ret, regions, short, fin,
          gone, big, calc, fn>>

mainvars == <<d, threads, terms, mpc, top, call, mem, live, ret, regions, short, fin,
              gone, big, calc>>

\* ---------------------------------------------------------- the inputs
\* terms = d/DIGITS_PER_ITER, the double truncated to long.
IterFits(t, dd) ==
    t = 0 \/ t * 181647 + (t * 4627) \div 10000 < (dd - 14 * t) * 1000000

TermsOfNat(dd) ==
    LET c == (dd * 10000) \div 141816
    IN  CHOOSE t \in {c - 1, c, c + 1} :
            t >= 0 /\ IterFits(t, dd) /\ ~IterFits(t + 1, dd)

TermsOf(dd) == IF dd >= 0 THEN TermsOfNat(dd) ELSE -TermsOfNat(-dd)

TermCounts ==
    (0..MaxSmallTerms) \cup {Threshold - 1}
        \cup {Threshold + k * WideStride : k \in 0..MaxWideSteps}

DigitsFor(t) == CHOOSE dd \in (14 * t)..(15 * t + 1) : TermsOf(dd) = t

DigitCounts == {DigitsFor(t) : t \in TermCounts} \cup {-15}

ThreadCounts == (-NegThreads)..MaxThreads

\* The calls of width < Threshold that bs(a,b,..) makes from calls of
\* width >= Threshold.
RECURSIVE NarrowCalls(_, _)
NarrowCalls(a, b) ==
    IF b - a < Threshold THEN {<<a, b>>}
    ELSE NarrowCalls(a, Mid(a, b)) \cup NarrowCalls(Mid(a, b), b)

Tabulate(t) ==
    IF t <= 0 THEN [k \in {} |-> Zero]
    ELSE [k \in NarrowCalls(0, t) \cup {<<0, t>>} |-> bs(k[1], k[2], t)]

FnIdle == [phase |-> "idle"]

\* The finalization before it starts.  pz, qz are the integers the floats pi, qi
\* are set from; of the floats only what they hold is kept, not their digits.
FinInit == [par |-> FALSE, team |-> 1, st |-> SerialStatus(2), pz |-> 0, qz |-> 0,
            pi |-> "none", qi |-> "none", ci |-> "none", p0 |-> 0, q0 |-> 0,
            npi |-> NoFloat, nqi |-> NoFloat, nci |-> NoFloat]

\* Values are kept modulo Modulus in mem; a run of one term keeps pstack and
\* qstack of main in full as well, for the digits of its result.
BigInit == [known |-> FALSE, p |-> IntOfNat(0), q |-> IntOfNat(0)]

\* The operations on values in full that a run of one term asked for dd
\* digits applies, each as a table from its operands to its result: bs(0,1)
\* (lines 110-123), mpz_addmul_ui (309), mpz_mul_ui (310), mpf_set_z (313,
\* 317), mpf_div (327/337), mpf_sqrt_ui (329/341), mpf_mul (355).
NoCalc ==
    [width1 |-> << >>, addmul |-> << >>, scale |-> << >>, setz |-> << >>,
     div |-> << >>, sqrt |-> << >>, mul |-> << >>]

CalcOneTerm(dd) ==
    LET n == FloatDigits(dd)
        w == ExactWidth1(1)
        q1 == IntAdd(w.q, IntMul(w.p, IntOfNat(A)))
        p1 == IntMul(w.p, IntOfNat(C \div D))
        fp == mpf_set_z(p1, n)
        fq == mpf_set_z(q1, n)
        quo == mpf_div(fp, fq, n)
        root == mpf_sqrt_ui(C, n)
    IN  [width1 |-> (1 :> w), addmul |-> (<<w.q, w.p>> :> q1), scale |-> (w.p :> p1),
         setz |-> (p1 :> fp) @@ (q1 :> fq), div |-> (<<fp, fq>> :> quo),
         sqrt |-> (C :> root), mul |-> (<<quo, root>> :> mpf_mul(quo, root, n))]

Calc(dd) == IF TermsOf(dd) = 1 THEN CalcOneTerm(dd) ELSE NoCalc

Init ==
    /\ d \in DigitCounts
    /\ ret = Tabulate(TermsOf(d))
    /\ threads \in ThreadCounts
    /\ terms = 0
    /\ mpc = "start"
    /\ top = << >>
    /\ call = [k \in {} |-> 0]
    /\ mem = [k \in {} |-> Zero]
    /\ live = {}
    /\ regions = 0
    /\ short = FALSE
    /\ fin = FinInit
    /\ gone = [o \in {} |-> 0]
    /\ big = BigInit
    /\ calc = Calc(d)
    /\ fn = FnIdle

\* ------------------------------------------------------------- main
\* ShortCircuit for negative term counts only (terms < 0).
ShortCircuitNegative(t) == t < 0

\* if (terms<=0)
ShortCircuit(t) == t <= 0

\* bs(0,terms,pstack,qstack,gstack,threads)
MainCallArgs(t, th) == [a |-> 0, b |-> t, tds |-> th]

\* A call of bs of width >= Threshold at its entry: mpz_init of its scratch
\* is done, the split is to come.
NewCall(a, b, tds, out) ==
    [a |-> a, b |-> b, tds |-> tds, out |-> out, pc |-> "enter",
     parS |-> FALSE, parC |-> FALSE, team |-> 1,
     sp |-> SerialStatus(2), cb |-> SerialStatus(3),
     given |-> [k \in {} |-> 0], join |-> [x |-> Zero, y |-> Zero]]

\* Lines 263-276: the term count, and mpz_init of pstack, qstack, gstack.
MainSetup ==
    /\ mpc = "start"
    /\ terms' = TermsOf(d)
    /\ mem' = (Root :> Zero)
    /\ live' = Objs(Root)
    /\ mpc' = "bs"
    /\ UNCHANGED <<d, threads, top, call, ret, regions, short, fin, gone, big, calc, fn>>

\* Lines 280-283.
MainShort ==
    /\ mpc = "bs"
    /\ ShortCircuit(terms)
    /\ mem' = [mem EXCEPT ![Root] = [p |-> mpz_set_ui(1), q |-> mpz_set_ui(0),
                                     g |-> mpz_set_ui(1)]]
    /\ mpc' = "after"
    /\ UNCHANGED <<d, threads, terms, top, call, live, ret, regions, short, fin, gone, big, calc, fn>>

\* Line 285: main invokes bs.
MainInvoke ==
    /\ mpc = "bs"
    /\ ~ShortCircuit(terms)
    /\ top' = Append(top, MainCallArgs(terms, threads))
    /\ mpc' = "call"
    /\ UNCHANGED <<d, threads, terms, call, mem, live, ret, regions, short, fin, gone, big, calc, fn>>

\* The invoked bs is of width < Threshold: it runs to its return on the thread
\* of main and leaves its triple in (pstack,qstack,gstack).
RootNarrow ==
    /\ mpc = "call"
    /\ LET c == top[Len(top)] IN
        /\ c.b - c.a < Threshold
        /\ <<c.a, c.b>> \in DOMAIN ret
        /\ mem' = [mem EXCEPT ![Root] = ret[<<c.a, c.b>>]]
        /\ gone' = Clear(gone, ScratchOf(Root, c.a, c.b))
        /\ big' = IF c.b - c.a = 1
                  THEN [known |-> TRUE, p |-> calc.width1[c.b].p, q |-> calc.width1[c.b].q]
                  ELSE big
    /\ mpc' = "after"
    /\ UNCHANGED <<d, threads, terms, top, call, live, ret, regions, short, fin, calc, fn>>

\* The invoked bs is of width >= Threshold: lines 129-131.
RootWide ==
    /\ mpc = "call"
    /\ LET c == top[Len(top)] IN
        /\ c.b - c.a >= Threshold
        /\ call' = (Root :> NewCall(c.a, c.b, c.tds, Root))
    /\ mem' = mem @@ (Scratch(Root) :> Zero)
    /\ live' = live \cup Objs(Scratch(Root))
    /\ mpc' = "wait"
    /\ UNCHANGED <<d, threads, terms, top, ret, regions, short, fin, gone, big, calc, fn>>

\* ---------------------------------------------------- bs: the split
\* Lines 176-182: the split outside a region.
SplitSerial(pi) ==
    /\ call[pi].pc = "enter"
    /\ SerialSplit(call[pi].a, call[pi].b, call[pi].tds)
    /\ call' = [call EXCEPT ![pi].pc = "split", ![pi].parS = FALSE,
                            ![pi].team = 1, ![pi].sp = SerialStatus(2)]
    /\ UNCHANGED <<d, threads, terms, mpc, top, mem, live, ret, regions, short, fin, gone, big, calc, fn>>

\* Lines 184-188: the 2-way region is entered by a team of j threads.
SplitParallel(pi, j) ==
    /\ call[pi].pc = "enter"
    /\ ~SerialSplit(call[pi].a, call[pi].b, call[pi].tds)
    /\ call' = [call EXCEPT ![pi].pc = "split", ![pi].parS = TRUE,
                            ![pi].team = j, ![pi].sp = SplitStatus(j)]
    /\ regions' = regions + 1
    /\ short' = (short \/ j < 2)
    /\ UNCHANGED <<d, threads, terms, mpc, top, mem, live, ret, fin, gone, big, calc, fn>>

\* The range, budget and output triple of the k-th call of the split; the
\* budgets handed so far are kept in the field given of the caller.
ChildA(c, k) == IF k = 0 THEN c.a ELSE Mid(c.a, c.b)

ChildB(c, k) == IF k = 0 THEN Mid(c.a, c.b) ELSE c.b

ChildTds(c, k) == IF k = 0 THEN Tds0(c.tds) ELSE Tds1(c.tds)

\* ChildOut handing the caller's output triple to both calls of the split.
ChildOutShared(pi, c, k) == c.out

ChildOut(pi, c, k) == IF k = 0 THEN c.out ELSE Scratch(pi)

\* Lines 181/190 (k = 0) and 182/192 (k = 1), the called bs of width <
\* Threshold: it runs to its return on the calling thread.
ChildNarrow(pi, k) ==
    LET c == call[pi] IN
    /\ c.pc = "split"
    /\ CanRun(c.sp, c.parS, k)
    /\ ChildB(c, k) - ChildA(c, k) < Threshold
    /\ <<ChildA(c, k), ChildB(c, k)>> \in DOMAIN ret
    /\ mem' = [mem EXCEPT ![ChildOut(pi, c, k)] = ret[<<ChildA(c, k), ChildB(c, k)>>]]
    /\ call' = [call EXCEPT ![pi].sp[k] = "done",
                            ![pi].given = (k :> ChildTds(c, k)) @@ @]
    /\ gone' = Clear(gone, ScratchOf(Append(pi, k), ChildA(c, k), ChildB(c, k)))
    /\ UNCHANGED <<d, threads, terms, mpc, top, live, ret, regions, short, fin, big, calc, fn>>

\* The same, the called bs of width >= Threshold: lines 129-131 of the callee.
ChildWide(pi, k) ==
    LET c == call[pi]
        ch == Append(pi, k)
    IN
    /\ c.pc = "split"
    /\ CanRun(c.sp, c.parS, k)
    /\ ChildB(c, k) - ChildA(c, k) >= Threshold
    /\ call' = [call EXCEPT ![pi].sp[k] = "run",
                            ![pi].given = (k :> ChildTds(c, k)) @@ @]
                 @@ (ch :> NewCall(ChildA(c, k), ChildB(c, k), ChildTds(c, k),
                                   ChildOut(pi, c, k)))
    /\ mem' = mem @@ (Scratch(ch) :> Zero)
    /\ live' = live \cup Objs(Scratch(ch))
    /\ UNCHANGED <<d, threads, terms, mpc, top, ret, regions, short, fin, gone, big, calc, fn>>

\* --------------------------------------------------- bs: the combine
\* The field join of a call keeps the content of its two triples as the split
\* left them, when the combine begins.
\* Line 197 after the split has ended (the barrier of its region, if any):
\* the combine outside a region.
CombineSerial(pi) ==
    LET c == call[pi] IN
    /\ c.pc = "split"
    /\ Joined(c.sp)
    /\ SerialCombine(c.a, c.b, c.tds)
    /\ call' = [call EXCEPT ![pi].pc = "combine", ![pi].parC = FALSE,
                            ![pi].team = 1, ![pi].cb = SerialStatus(3),
                            ![pi].join = [x |-> mem[c.out], y |-> mem[Scratch(pi)]]]
    /\ UNCHANGED <<d, threads, terms, mpc, top, mem, live, ret, regions, short, fin, gone, big, calc, fn>>

\* Lines 202-205: the 3-way region is entered by a team of j threads.
CombineParallel(pi, j) ==
    LET c == call[pi] IN
    /\ c.pc = "split"
    /\ Joined(c.sp)
    /\ ~SerialCombine(c.a, c.b, c.tds)
    /\ call' = [call EXCEPT ![pi].pc = "combine", ![pi].parC = TRUE,
                            ![pi].team = j, ![pi].cb = CombineStatus(j),
                            ![pi].join = [x |-> mem[c.out], y |-> mem[Scratch(pi)]]]
    /\ regions' = regions + 1
    /\ short' = (short \/ j < 3)
    /\ UNCHANGED <<d, threads, terms, mpc, top, mem, live, ret, fin, gone, big, calc, fn>>

\* The k-th product mpz_mul(dst,dst,src) of the combine (lines 198-200 and
\* 207-211): its destination and its other operand.
ProdDst(pi, c, k) ==
    IF k = 0 THEN <<c.out, "p">>
    ELSE IF k = 1 THEN <<c.out, "q">>
    ELSE <<Scratch(pi), "q">>

ProdSrc(pi, c, k) ==
    IF k = 0 THEN <<Scratch(pi), "p">>
    ELSE IF k = 1 THEN <<Scratch(pi), "p">>
    ELSE <<c.out, "g">>

Val(o) == mem[o[1]][o[2]]

Product(pi, k) ==
    LET c == call[pi]
        dst == ProdDst(pi, c, k)
        src == ProdSrc(pi, c, k)
    IN
    /\ c.pc = "combine"
    /\ CanRun(c.cb, c.parC, k)
    /\ mem' = [mem EXCEPT ![dst[1]][dst[2]] = mpz_mul(Val(dst), Val(src))]
    /\ call' = [call EXCEPT ![pi].cb[k] = "done"]
    /\ UNCHANGED <<d, threads, terms, mpc, top, live, ret, regions, short, fin, gone, big, calc, fn>>

\* Lines 216-218 after the combine has ended (the barrier of its region, if
\* any): clear pstack2, qstack1 += qstack2, clear qstack2.
Add(pi) ==
    LET c == call[pi]
        s == Scratch(pi)
    IN
    /\ c.pc = "combine"
    /\ Joined(c.cb)
    /\ mem' = [mem EXCEPT ![c.out].q = mpz_add(mem[c.out].q, mem[s].q),
                          ![s].p = 0, ![s].q = 0]
    /\ live' = live \ ClearedEarly(s)
    /\ gone' = Clear(gone, ClearedEarly(s))
    /\ call' = [call EXCEPT ![pi].pc = "gmul", ![pi].team = 1]
    /\ UNCHANGED <<d, threads, terms, mpc, top, ret, regions, short, fin, big, calc, fn>>

\* Lines 219-224: the G product if b < terms, clear gstack2, return.  The
\* caller goes on: the thread of the parent's branch, or main.
Finish(pi) ==
    LET c == call[pi]
        s == Scratch(pi)
        g1 == GMul(c.b, terms, mem[c.out].g, mem[s].g)
        rest == [q \in DOMAIN call \ {pi} |-> call[q]]
    IN
    /\ c.pc = "gmul"
    /\ mem' = [t \in DOMAIN mem \ {s} |->
                  IF t = c.out THEN [mem[t] EXCEPT !.g = g1] ELSE mem[t]]
    /\ live' = live \ Objs(s)
    /\ gone' = Clear(gone, {<<s, "g">>})
    /\ IF pi = Root
       THEN /\ call' = rest
            /\ mpc' = "after"
       ELSE /\ call' = [rest EXCEPT ![SubSeq(pi, 1, Len(pi) - 1)].sp[pi[Len(pi)]] = "done"]
            /\ UNCHANGED mpc
    /\ UNCHANGED <<d, threads, terms, top, ret, regions, short, fin, big, calc, fn>>

\* ------------------------------------------------- main: finalization
\* Lines 294-309: clear gstack; set the precision of the floats; qstack +=
\* A*pstack.  p0 and q0 keep what bs left in pstack and qstack.
MainAddMul ==
    /\ mpc = "after"
    /\ fin' = [fin EXCEPT !.p0 = mem[Root].p, !.q0 = mem[Root].q]
    /\ mem' = [mem EXCEPT ![Root].q = mpz_add(mem[Root].q, mpz_mul(mem[Root].p, A)),
                          ![Root].g = 0]
    /\ big' = IF big.known
              THEN [big EXCEPT !.q = calc.addmul[<<big.q, big.p>>]]
              ELSE big
    /\ live' = live \ {<<Root, "g">>}
    /\ gone' = Clear(gone, {<<Root, "g">>})
    /\ mpc' = "scale"
    /\ UNCHANGED <<d, threads, terms, top, call, ret, regions, short, calc, fn>>

\* Line 310: pstack *= C/D.
MainScale ==
    /\ mpc = "scale"
    /\ mem' = [mem EXCEPT ![Root].p = mpz_mul(mem[Root].p, C \div D)]
    /\ big' = IF big.known
              THEN [big EXCEPT !.p = calc.scale[big.p]]
              ELSE big
    /\ mpc' = "setz"
    /\ UNCHANGED <<d, threads, terms, top, call, live, ret, regions, short, fin, gone, calc, fn>>

\* Lines 312-318: pi and qi are set from pstack and qstack and the integers
\* cleared.
MainPrep ==
    /\ mpc = "setz"
    /\ fin' = [fin EXCEPT !.pz = mem[Root].p, !.qz = mem[Root].q,
                          !.pi = "p", !.qi = "q",
                          !.npi = IF big.known THEN calc.setz[big.p] ELSE NoFloat,
                          !.nqi = IF big.known THEN calc.setz[big.q] ELSE NoFloat]
    /\ mem' = [mem EXCEPT ![Root] = Zero]
    /\ live' = live \ Objs(Root)
    /\ gone' = Clear(gone, {<<Root, "p">>, <<Root, "q">>})
    /\ mpc' = "final"
    /\ UNCHANGED <<d, threads, terms, top, call, ret, regions, short, big, calc, fn>>

\* Lines 325-329: division and square root outside a region.
FinalSerial ==
    /\ mpc = "final"
    /\ threads < 2
    /\ fin' = [fin EXCEPT !.par = FALSE, !.team = 1, !.st = SerialStatus(2)]
    /\ mpc' = "divsqrt"
    /\ UNCHANGED <<d, threads, terms, top, call, mem, live, ret, regions, short, gone, big, calc, fn>>

\* Lines 331-334: the 2-way region is entered by a team of j threads; its
\* branches are chosen as those of the split are.
FinalParallel(j) ==
    /\ mpc = "final"
    /\ ~(threads < 2)
    /\ fin' = [fin EXCEPT !.par = TRUE, !.team = j, !.st = SplitStatus(j)]
    /\ regions' = regions + 1
    /\ short' = (short \/ j < 2)
    /\ mpc' = "divsqrt"
    /\ UNCHANGED <<d, threads, terms, top, call, mem, live, ret, gone, big, calc, fn>>

\* Line 327/337 (k = 0): qi = pi/qi.  Lines 328-329/340-341 (k = 1): ci is
\* initialised and set to sqrt(C).
FinalBranch(k) ==
    /\ mpc = "divsqrt"
    /\ CanRun(fin.st, fin.par, k)
    /\ fin' = IF k = 0
              THEN [fin EXCEPT !.st[0] = "done", !.qi = "p/q",
                               !.nqi = IF big.known
                                       THEN calc.div[<<fin.npi, fin.nqi>>]
                                       ELSE NoFloat]
              ELSE [fin EXCEPT !.st[1] = "done", !.ci = "sqrt",
                               !.nci = IF big.known THEN calc.sqrt[C] ELSE NoFloat]
    /\ UNCHANGED <<d, threads, terms, mpc, top, call, mem, live, ret, regions, short, gone, big, calc, fn>>

\* What mpf_mul(pi,qi,ci) leaves in pi: the product; but with ci never
\* initialised its operand is an indeterminate mpf_t, and the call (or
\* mpf_clear(ci) after it) either goes through on garbage or aborts the run.
FinalOutcomes ==
    IF fin.qi = "p/q" /\ fin.ci = "sqrt" THEN {"p/q*sqrt"} ELSE {"undefined", "abort"}

\* Lines 355-357 after the division and the square root have ended: pi = qi*ci.
\* main is done when it has exited or aborted.
FinalMul ==
    /\ mpc = "divsqrt"
    /\ Joined(fin.st)
    /\ \E o \in FinalOutcomes :
          fin' = [fin EXCEPT !.team = 1, !.pi = o,
                             !.npi = IF big.known /\ o = "p/q*sqrt"
                                     THEN calc.mul[<<fin.nqi, fin.nci>>]
                                     ELSE NoFloat]
    /\ mpc' = "done"
    /\ UNCHANGED <<d, threads, terms, top, call, mem, live, ret, regions, short, gone, big, calc, fn>>

\* ------------------------------------------------------ the program
Next ==
    \/ MainSetup
    \/ MainShort
    \/ MainInvoke
    \/ RootNarrow
    \/ RootWide
    \/ \E pi \in DOMAIN call : SplitSerial(pi)
    \/ \E pi \in DOMAIN call : \E j \in TeamSizes(2) : SplitParallel(pi, j)
    \/ \E pi \in DOMAIN call : \E k \in 0..1 : ChildNarrow(pi, k)
    \/ \E pi \in DOMAIN call : \E k \in 0..1 : ChildWide(pi, k)
    \/ \E pi \in DOMAIN call : CombineSerial(pi)
    \/ \E pi \in DOMAIN call : \E j \in TeamSizes(3) : CombineParallel(pi, j)
    \/ \E pi \in DOMAIN call : \E k \in 0..2 : Product(pi, k)
    \/ \E pi \in DOMAIN call : Add(pi)
    \/ \E pi \in DOMAIN call : Finish(pi)
    \/ MainAddMul
    \/ MainScale
    \/ MainPrep
    \/ FinalSerial
    \/ \E j \in TeamSizes(2) : FinalParallel(j)
    \/ \E k \in 0..1 : FinalBranch(k)
    \/ FinalMul

Spec == Init /\ [][Next]_vars

\* The scheduler never stops every thread for ever: while some thread can take
\* a step, a step is eventually taken.
FairSpec == Spec /\ WF_vars(Next)

\* ------------------------------------------- bs applied as a function
\* One range [a, b) of a run of terms terms, and an inner point m of it (m = a
\* for a range of width 1).
FnRanges ==
    {[phase |-> "range", terms |-> n, a |-> a, b |-> b, m |-> m,
      res |-> Zero, calls |-> 0, greads |-> {}, l |-> Zero, r |-> Zero,
      c |-> Zero, tree |-> {}] :
        n \in 1..MaxN, a \in 0..MaxN, b \in 1..MaxN, m \in 0..MaxN}

FnInit ==
    /\ fn \in {f \in FnRanges :
                 /\ f.a < f.b /\ f.b <= f.terms
                 /\ IF f.b - f.a = 1 THEN f.m = f.a ELSE f.a < f.m /\ f.m < f.b}
    /\ d = 0 /\ threads = 0 /\ terms = 0 /\ mpc = "fn" /\ top = << >>
    /\ call = [k \in {} |-> 0] /\ mem = [k \in {} |-> Zero] /\ live = {}
    /\ ret = [k \in {} |-> Zero] /\ regions = 0 /\ short = FALSE /\ fin = FinInit
    /\ gone = [o \in {} |-> 0] /\ big = BigInit /\ calc = NoCalc

\* The ranges bs(a, b, ..) is invoked with, down the recursion.
FnTree ==
    /\ fn.phase = "range"
    /\ fn.tree = {}
    /\ fn' = [fn EXCEPT !.tree = BsRanges(fn.a, fn.b)]
    /\ UNCHANGED mainvars

\* bs(a, b, ..) with the global terms = fn.terms.
FnEval ==
    /\ fn.phase = "range"
    /\ fn.tree # {}
    /\ fn' = [fn EXCEPT !.phase = "whole", !.res = bs(fn.a, fn.b, fn.terms),
                        !.calls = BsCalls(fn.a, fn.b),
                        !.greads = GReads(fn.a, fn.b, fn.terms)]
    /\ UNCHANGED mainvars

\* bs(a, m, ..) and bs(m, b, ..) under the same terms.
FnSplit ==
    /\ fn.phase = "whole"
    /\ fn.b - fn.a >= 2
    /\ fn' = [fn EXCEPT !.phase = "parts", !.l = bs(fn.a, fn.m, fn.terms),
                        !.r = bs(fn.m, fn.b, fn.terms)]
    /\ UNCHANGED mainvars

\* The combine of lines 198-200 and 217-220 applied to the two parts.
FnCombine ==
    /\ fn.phase = "parts"
    /\ fn' = [fn EXCEPT !.phase = "combined",
                        !.c = Combine(fn.b, fn.terms, fn.l, fn.r)]
    /\ UNCHANGED mainvars

FnNext == FnTree \/ FnEval \/ FnSplit \/ FnCombine

FnSpec == FnInit /\ [][FnNext]_vars

\* --------------------------------------------- threads and accesses
RECURSIVE SumOver(_, _)
SumOver(S, f) ==
    IF S = {} THEN 0
    ELSE LET x == CHOOSE y \in S : TRUE IN f[x] + SumOver(S \ {x}, f)

\* The threads a call has added to the one that runs it: those of the
\* region it is in, but the one that entered the region.
ExtraThreads(c) ==
    IF (c.pc = "split" /\ c.parS) \/ (c.pc = "combine" /\ c.parC)
    THEN c.team - 1 ELSE 0

\* The threads at work in the call tree of bs: the thread of main and the
\* threads of the teams of the regions that are open.
ActiveThreads ==
    1 + SumOver(DOMAIN call, [pi \in DOMAIN call |-> ExtraThreads(call[pi])])

\* The integers the next statement of each thread reads (rd) and writes (wr);
\* who names the thread by the call and branch it runs.
PendingChild(pi, k) ==
    LET c == call[pi] IN
    [who |-> <<pi, "split", k>>, rd |-> {},
     wr |-> IF ChildB(c, k) - ChildA(c, k) < Threshold
            THEN Objs(ChildOut(pi, c, k)) ELSE {}]

PendingProduct(pi, k) ==
    LET c == call[pi] IN
    [who |-> <<pi, "combine", k>>,
     rd |-> {ProdDst(pi, c, k), ProdSrc(pi, c, k)},
     wr |-> {ProdDst(pi, c, k)}]

PendingAdd(pi) ==
    LET c == call[pi]
        s == Scratch(pi)
    IN  [who |-> <<pi, "self", 0>>,
         rd |-> {<<c.out, "q">>, <<s, "q">>},
         wr |-> {<<c.out, "q">>} \cup ClearedEarly(s)]

PendingFinish(pi) ==
    LET c == call[pi]
        s == Scratch(pi)
    IN  [who |-> <<pi, "self", 0>>,
         rd |-> IF c.b < terms THEN {<<c.out, "g">>, <<s, "g">>} ELSE {},
         wr |-> IF c.b < terms THEN {<<c.out, "g">>, <<s, "g">>} ELSE {<<s, "g">>}]

Pending ==
    UNION {
        {PendingChild(pi, k) : k \in {i \in 0..1 :
            call[pi].pc = "split" /\ CanRun(call[pi].sp, call[pi].parS, i)}}
        \cup {PendingProduct(pi, k) : k \in {i \in 0..2 :
            call[pi].pc = "combine" /\ CanRun(call[pi].cb, call[pi].parC, i)}}
        \cup (IF call[pi].pc = "combine" /\ Joined(call[pi].cb)
              THEN {PendingAdd(pi)} ELSE {})
        \cup (IF call[pi].pc = "gmul" THEN {PendingFinish(pi)} ELSE {})
        : pi \in DOMAIN call}

\* =============================================================== claims
\* The triple the fully serial bs(0, terms) leaves in the root.
SerialRoot == ret[<<0, terms>>]

RootIs(x) == mem[Root].p = x.p /\ mem[Root].q = x.q

\* C1: for every term count >= 1, the run with task budget 0 and the runs with
\* any budget N >= 2 in which every region of bs got the threads it asked for
\* leave the same P and Q in the root, the ones of the serial evaluation, in
\* every interleaving of the branches.
C1_SerialParallelAgree ==
    (mpc = "after" /\ terms >= 1 /\ (threads = 0 \/ (threads >= 2 /\ ~short)))
        => RootIs(SerialRoot)

C1_Witness ==
    /\ mpc = "after" /\ threads >= 3 /\ ~short /\ regions >= 3
    /\ terms >= Threshold /\ RootIs(SerialRoot)

\* C2: for every n >= 2 and every m with 0 < m < n, the combine rule applied
\* to bs over [0, m) and bs over [m, n) gives the P and Q of bs(0, n).
C2_SplitAnywhere ==
    (fn.phase = "combined" /\ fn.a = 0 /\ fn.b = fn.terms)
        => (fn.c.p = fn.res.p /\ fn.c.q = fn.res.q)

C2_Witness ==
    /\ fn.phase = "combined" /\ fn.a = 0 /\ fn.b = fn.terms /\ fn.b >= 5
    /\ fn.m # Mid(fn.a, fn.b) /\ fn.m > 1
    /\ fn.c.p = fn.res.p /\ fn.c.q = fn.res.q

\* bs with the G product computed at every combine, whatever b is.
CombineAllG(x, y) ==
    [p |-> mpz_mul(x.p, y.p),
     q |-> mpz_add(mpz_mul(x.q, y.p), mpz_mul(y.q, x.g)),
     g |-> mpz_mul(x.g, y.g)]

RECURSIVE bsAllG(_, _)
bsAllG(a, b) ==
    IF b - a = 1 THEN Width1(b)
    ELSE IF b - a = 2 THEN CombineAllG(Unrolled1(b), Unrolled2(b))
    ELSE CombineAllG(bsAllG(a, Mid(a, b)), bsAllG(Mid(a, b), b))

\* C3: for every term count >= 1 the root P and Q of bs, which skips the G
\* product when b = terms, are those of bs computing G at every combine; and no
\* statement reads, after the range is evaluated, the G of a range whose right
\* edge is the term count.
C3_GPruning ==
    (fn.phase # "range" /\ fn.a = 0 /\ fn.b = fn.terms)
        => /\ fn.res.p = bsAllG(0, fn.terms).p
           /\ fn.res.q = bsAllG(0, fn.terms).q
           /\ \A r \in fn.greads : r[2] < fn.terms

C3_Witness ==
    /\ fn.phase = "whole" /\ fn.a = 0 /\ fn.b = fn.terms /\ fn.terms >= 7
    /\ fn.res.g # bsAllG(0, fn.terms).g
    /\ fn.res.q = bsAllG(0, fn.terms).q

\* The closed form of the term b, from the comment of lines 105-107.
TermG(b) == ((6 * b - 5) * (2 * b - 1) * (6 * b - 1)) % Modulus

TermQ(b) ==
    LET v == (TermG(b) * (((A % Modulus) + (B % Modulus) * b) % Modulus)) % Modulus
    IN  IF b % 2 = 1 THEN (Modulus - v) % Modulus ELSE v

CubeC == ((((C % Modulus) * (C % Modulus)) % Modulus) * (C % Modulus)) % Modulus

\* C4: for a range [b-1, b) of width 1, bs returns G = (6b-5)(2b-1)(6b-1),
\* P with 24*P = b^3*C^3, and Q = G*(A+B*b) negated for odd b, and makes no
\* further call of bs; so does term count 1 for b = 1.
C4_Width1ClosedForm ==
    (fn.phase # "range" /\ fn.b - fn.a = 1)
        => /\ fn.res.g = TermG(fn.b)
           /\ (24 * fn.res.p) % Modulus = ((fn.b * fn.b * fn.b) * CubeC) % Modulus
           /\ fn.res.q = TermQ(fn.b)
           /\ fn.calls = 1

C4_Witness ==
    /\ fn.phase = "whole" /\ fn.terms = 1 /\ fn.a = 0 /\ fn.b = 1
    /\ fn.res.g = 5 /\ fn.calls = 1

\* C5: with term count 0 main sets P = 1, Q = 0 and never invokes bs; main
\* invokes bs only as bs(0, terms, ..) with 0 < terms.
C5_ZeroTerms ==
    /\ terms <= 0 => (top = << >> /\ DOMAIN call = {})
    /\ (terms = 0 /\ mpc = "after") => (mem[Root].p = 1 /\ mem[Root].q = 0)
    /\ \A i \in 1..Len(top) : top[i].a = 0 /\ 0 < top[i].b /\ top[i].b = terms

C5_Witness ==
    /\ mpc = "after" /\ d = 0 /\ terms = 0 /\ top = << >>
    /\ mem[Root].p = 1 /\ mem[Root].q = 0

\* C6: with a task budget <= 1 (0 and negative budgets too) no parallel region
\* is entered, in bs or in the finalization; the run ends with pi computed, and
\* the root P and Q are those of the serial evaluation.
C6_NoBudgetAllSerial ==
    threads <= 1
        => /\ regions = 0
           /\ \A pi \in DOMAIN call :
                ~call[pi].parS /\ ~call[pi].parC /\ call[pi].team = 1
           /\ ~fin.par
           /\ (mpc = "after" /\ terms >= 1) => RootIs(SerialRoot)
           /\ mpc = "done" => fin.pi = "p/q*sqrt"

C6_Witness ==
    /\ threads < 0 /\ terms > 2 * Threshold /\ mpc = "done"
    /\ regions = 0 /\ fin.pi = "p/q*sqrt"

\* C7: no two threads are about to access the same integer with one of them
\* writing it.
C7_NoRace ==
    \A x \in Pending : \A y \in Pending :
        x.who # y.who => x.wr \cap (y.rd \cup y.wr) = {}

C7_Witness ==
    /\ \E x \in Pending : \E y \in Pending :
          /\ x.who[1] # y.who[1] /\ x.who[2] = "combine" /\ y.who[2] = "split"
          /\ x.wr # {} /\ y.wr # {}
    /\ \E pi \in DOMAIN call :
          call[pi].parC /\ \A k \in 0..2 : call[pi].cb[k] = "todo"

\* C8: a call that has entered a region for its split is in its combine, or
\* past it, only with both calls of the split done; one that has entered a
\* region for its combine is past its addition only with the three products
\* done.
C8_JoinBeforeProceed ==
    \A pi \in DOMAIN call :
        /\ (call[pi].parS /\ call[pi].pc \in {"combine", "gmul"})
              => \A k \in 0..1 : call[pi].sp[k] = "done"
        /\ (call[pi].parC /\ call[pi].pc = "gmul")
              => \A k \in 0..2 : call[pi].cb[k] = "done"

Max(x, y) == IF x >= y THEN x ELSE y

\* C9: the threads at work in the call tree of bs are never more than
\* max(1, task budget).
C9_ThreadBound == ActiveThreads <= Max(1, threads)

C9_Witness == threads >= 5 /\ ActiveThreads = threads /\ Cardinality(DOMAIN call) = 3

\* C10: under fair scheduling the run ends, with no call of bs left in
\* progress and no region left open.
C10_Terminates == <>(mpc = "done" /\ DOMAIN call = {})

C10_Witness == mpc = "done" /\ DOMAIN call = {} /\ regions >= 5 /\ terms >= 1

\* C14: for every range [a, b) of width > 2 the split point mid =
\* a + trunc((b-a)*0.5224) lies strictly inside it, a < mid < b, so that both
\* parts are non-empty and narrower than the range; and no call of the tree of
\* bs(a, b, ..) has a >= b.
C14_MidInside ==
    \A r \in fn.tree :
        /\ r[1] < r[2]
        /\ r[2] - r[1] > 2 =>
              /\ r[1] < Mid(r[1], r[2])
              /\ Mid(r[1], r[2]) < r[2]
              /\ <<r[1], Mid(r[1], r[2])>> \in fn.tree
              /\ <<Mid(r[1], r[2]), r[2]>> \in fn.tree

C14_Witness ==
    /\ fn.b - fn.a >= 7
    /\ Cardinality(fn.tree) >= 5
    /\ \E r \in fn.tree : r[2] - r[1] = 3 /\ Mid(r[1], r[2]) = r[1] + 1

\* C15: for every range of width 2 the unrolled evaluation (term b-1 into the
\* output slots, term b into the scratch integers, then the combine) gives
\* the P and Q, and the G when b < terms, of the two width-1 evaluations
\* bs(a, a+1, ..) and bs(a+1, b, ..) put together by the combine.
C15_UnrolledIsTwoLeaves ==
    (fn.phase = "combined" /\ fn.b - fn.a = 2)
        => /\ fn.l = Width1(fn.b - 1)
           /\ fn.r = Width1(fn.b)
           /\ fn.res.p = fn.c.p
           /\ fn.res.q = fn.c.q
           /\ fn.b < fn.terms => fn.res.g = fn.c.g

C15_Witness ==
    /\ fn.phase = "combined"
    /\ fn.b - fn.a = 2
    /\ fn.b < fn.terms
    /\ fn.b % 2 = 1
    /\ fn.res = fn.c
    /\ fn.res.g # fn.l.g

\* C18: in every parallel region, whatever the size 1..requested of the team
\* the runtime gives it, no branch is left out: both calls of a split, the
\* three products of a combine, and the division and the square root of the
\* finalization are each executed, so the run ends with sqrt(C) in ci.
C18_EveryBranchRuns ==
    /\ \A pi \in DOMAIN call :
          /\ \A k \in 0..1 : call[pi].sp[k] # "skip"
          /\ \A k \in 0..2 : call[pi].cb[k] # "skip"
    /\ \A k \in 0..1 : fin.st[k] # "skip"
    /\ mpc = "done" => fin.ci = "sqrt"

\* Outside a region the two calls of a split run left then right, and the
\* three products of a combine in the order P, Ql*Pr, Qr*Gl: a branch has
\* started only when the one before it is done.
InProgramOrder(st, n) == \A k \in 1..(n - 1) : st[k] # "todo" => st[k - 1] = "done"

\* C12 as stated: a call of bs runs its split in a region only if its width
\* exceeds the threshold of 1000 and its budget is at least 2, its combine in a
\* region only if its width exceeds the threshold and its budget is at least
\* 3; in every other case the branches run in program order.
C12_OnlyAboveThreshold ==
    \A pi \in DOMAIN call :
        LET c == call[pi] IN
        /\ c.parS => (c.b - c.a > Threshold /\ c.tds >= 2)
        /\ c.parC => (c.b - c.a > Threshold /\ c.tds >= 3)
        /\ (c.pc = "split" /\ ~c.parS) => InProgramOrder(c.sp, 2)
        /\ (c.pc = "combine" /\ ~c.parC) => InProgramOrder(c.cb, 3)

\* C12 amended: the width need not exceed the threshold, it is enough that it
\* reaches it.  A call of bs runs its split in a region only if its width is
\* at least 1000 and its budget at least 2, its combine in a region only if
\* its width is at least 1000 and its budget at least 3; in every other case
\* the branches run in program order.
C12_OnlyFromThreshold ==
    \A pi \in DOMAIN call :
        LET c == call[pi] IN
        /\ c.parS => (c.b - c.a >= Threshold /\ c.tds >= 2)
        /\ c.parC => (c.b - c.a >= Threshold /\ c.tds >= 3)
        /\ (c.pc = "split" /\ ~c.parS) => InProgramOrder(c.sp, 2)
        /\ (c.pc = "combine" /\ ~c.parC) => InProgramOrder(c.cb, 3)

C12_Witness ==
    \E pi \in DOMAIN call :
        LET c == call[pi] IN
        /\ c.b - c.a = Threshold
        /\ c.parS /\ ~c.parC
        /\ c.pc = "combine"
        /\ c.cb[0] = "done" /\ c.cb[1] = "todo"

\* C13: a call of bs with budget n >= 0 hands floor(n/2) to its left call and
\* n - floor(n/2) to its right call, inside a region as well as outside:
\* the two budgets are >= 0, differ by at most 1 and sum to n; and the budget
\* of a call in progress is the one it was handed (the root's, the thread
\* count main passed).
C13_BudgetHalved ==
    /\ Root \in DOMAIN call => call[Root].tds = threads
    /\ \A pi \in DOMAIN call :
          LET c == call[pi]
              n == c.tds
          IN
          /\ \A k \in DOMAIN c.given :
                Append(pi, k) \in DOMAIN call => call[Append(pi, k)].tds = c.given[k]
          /\ n >= 0 =>
                /\ 0 \in DOMAIN c.given => c.given[0] = n \div 2
                /\ 1 \in DOMAIN c.given => c.given[1] = n - n \div 2
                /\ \A k \in DOMAIN c.given : c.given[k] >= 0
                /\ DOMAIN c.given = {0, 1} =>
                      /\ c.given[0] + c.given[1] = n
                      /\ c.given[1] - c.given[0] \in {0, 1}

C13_Witness ==
    \E pi \in DOMAIN call :
        /\ call[pi].parS
        /\ call[pi].tds = 5
        /\ DOMAIN call[pi].given = {0, 1}
        /\ Append(pi, 1) \in DOMAIN call
        /\ call[Append(pi, 1)].tds = 3
        /\ call[Append(pi, 1)].pc = "gmul"

\* The scratch integers of the calls of width >= Threshold in progress.
ScratchInProgress == UNION {Objs(Scratch(pi)) : pi \in DOMAIN call}

\* C19: every integer the next statement of a thread reads or writes is
\* initialised and not cleared; no integer is cleared twice, and a cleared
\* one is not live; the scratch integers of a call are live from its entry
\* to its addition (gstack2 to its G product) and none outlives its call; a
\* call of width 1 initialises and clears no scratch integer; and the output
\* triple of a call in progress is live: bs does not clear it.
C19_ScratchLifetime ==
    /\ \A x \in Pending : (x.rd \cup x.wr) \subseteq live
    /\ \A o \in DOMAIN gone : gone[o] = 1 /\ o \notin live
    /\ live \subseteq (Objs(Root) \cup ScratchInProgress)
    /\ \A pi \in DOMAIN call :
          LET c == call[pi]
              s == Scratch(pi)
          IN
          /\ Objs(c.out) \subseteq live
          /\ <<s, "g">> \in live
          /\ IF c.pc = "gmul"
             THEN ClearedEarly(s) \subseteq DOMAIN gone
             ELSE ClearedEarly(s) \subseteq live
    /\ mpc \in {"call", "wait", "after"} => Objs(Root) \subseteq live
    /\ mpc = "after" =>
          IF terms <= 1 THEN DOMAIN gone = {}
          ELSE Objs(Scratch(Root)) \subseteq DOMAIN gone

C19_Witness ==
    /\ \E pi \in DOMAIN call :
          /\ pi # Root
          /\ call[pi].pc = "gmul"
          /\ call[pi].parC
          /\ call[pi].b < terms
    /\ Cardinality(DOMAIN gone) >= 8

\* The operands of the k-th product of the combine, as the split left them.
JoinVal(pi, o) ==
    IF o[1] = Scratch(pi) THEN call[pi].join.y[o[2]] ELSE call[pi].join.x[o[2]]

\* C16: in the combine of a call, in a region or not, a product that has not
\* run yet finds its operands as the split left them, and so does the G
\* product; and at its return the call leaves in its output slots
\* P = Pl*Pr, Q = Ql*Pr + Qr*Gl and G = Gl*Gr when b < terms, of the values
\* the split left in the two triples.
C16_CombineInPlace ==
    /\ [](\A pi \in DOMAIN call :
            LET c == call[pi] IN
            /\ c.pc = "combine" =>
                  \A k \in 0..2 : c.cb[k] = "todo" =>
                      /\ Val(ProdDst(pi, c, k)) = JoinVal(pi, ProdDst(pi, c, k))
                      /\ Val(ProdSrc(pi, c, k)) = JoinVal(pi, ProdSrc(pi, c, k))
            /\ c.pc \in {"combine", "gmul"} =>
                  /\ mem[c.out].g = c.join.x.g
                  /\ mem[Scratch(pi)].g = c.join.y.g)
    /\ [][\A pi \in DOMAIN call :
            (call[pi].pc = "gmul" /\ pi \notin DOMAIN call') =>
                mem'[call[pi].out] =
                    Combine(call[pi].b, terms, call[pi].join.x, call[pi].join.y)]_vars

\* The first n significant digits of a float, the highest first.
FirstDigits(f, n) ==
    IF Len(f.m) < n THEN << >> ELSE BigReverse(BigDrop(f.m, Len(f.m) - n))

PiDigits == <<3, 1, 4, 1, 5, 9, 2, 6, 5, 3, 5, 8, 9, 7, 9>>

\* C11: a run of one term asked for 15 digits, whatever its task budget, ends
\* with pi = qi*ci a positive value with one digit before the point whose
\* first 15 digits are 3.14159265358979.
C11_FifteenDigits ==
    (mpc = "done" /\ terms = 1 /\ d = 15)
        => /\ fin.pi = "p/q*sqrt"
           /\ ~fin.npi.neg
           /\ fin.npi.e + Len(fin.npi.m) = 1
           /\ FirstDigits(fin.npi, 15) = PiDigits

\* pi as the serial path computes it from pstack and qstack: lines 313, 317,
\* 327, 329, 355 in program order.
SerialPi ==
    mpf_mul(mpf_div(mpf_set_z(big.p, FloatDigits(d)), mpf_set_z(big.q, FloatDigits(d)),
                    FloatDigits(d)),
            mpf_sqrt_ui(C, FloatDigits(d)), FloatDigits(d))

\* C17: qstack + A*pstack is taken from the pstack bs left, before pstack is
\* multiplied by C/D; the product qi*ci is taken only when both the division
\* and the square root are done; and every run, in a region or not, ends
\* with the pi of the serial path.
C17_FinalizationOrder ==
    /\ mpc = "scale" =>
          /\ mem[Root].p = fin.p0
          /\ mem[Root].q = mpz_add(fin.q0, mpz_mul(fin.p0, A))
    /\ mpc = "setz" =>
          /\ mem[Root].p = mpz_mul(fin.p0, C \div D)
          /\ mem[Root].q = mpz_add(fin.q0, mpz_mul(fin.p0, A))
    /\ mpc \in {"final", "divsqrt", "done"} =>
          /\ fin.pz = mpz_mul(fin.p0, C \div D)
          /\ fin.qz = mpz_add(fin.q0, mpz_mul(fin.p0, A))
    /\ mpc = "done" =>
          /\ fin.st[0] = "done" /\ fin.st[1] = "done"
          /\ fin.pi = "p/q*sqrt"
          /\ big.known => fin.npi = SerialPi
====
